---------------------------- MODULE Spec2Model ----------------------------
(***************************************************************************)
(* A model of the two static analyzers of the repository:                  *)
(*   src/CyclomaticComplexityAnalyzer.py  (ComplexityVisitor, hotspots,    *)
(*                                         decision-point clusters)        *)
(*   src/CodeSafetyAnalyzer.py            (CodeVisitor, the six patterns)  *)
(*                                                                         *)
(* Four specifications share the module:                                   *)
(*   Spec      the complexity traversal of one analyze_code call           *)
(*   SpecHot   _identify_hotspots applied to any list of metrics           *)
(*   SpecClu   _find_decision_clusters applied to any list of points       *)
(*   SpecSafe  the safety traversal of one analyze_code call               *)
(* Each one leaves the variables of the others at their idle values.       *)
(***************************************************************************)
EXTENDS Integers, Sequences, FiniteSets, TLC

VARIABLES
    pc,                       \* position of the running call
    \* ---- ComplexityVisitor (CyclomaticComplexityAnalyzer.py:268-275)
    metrics,
    total_complexity,
    current_function,
    current_class,
    nested_depth,
    all_decision_points,
    current_decision_points,
    frames,                   \* the Python call stack of visit_FunctionDef / visit_ClassDef
    visited,                  \* the nodes of the tree handed to visit() so far, in visiting order
    analysis,                 \* what analyze_code returns
    \* ---- CyclomaticComplexityAnalyzer (lines 26-27) and its pure helpers
    threshold_warning,
    threshold_critical,
    hot_metrics,              \* argument of _identify_hotspots
    hotspots,                 \* its return value
    points,                   \* argument of _find_decision_clusters
    clusters,                 \* its return value
    \* ---- CodeVisitor (CodeSafetyAnalyzer.py:208-221) and analyze_code
    tree,                     \* the parsed module: a sequence of statements
    todo,                     \* nodes still to be visited, depth first
    has_hardcoded_credentials,
    has_unsafe_deserialization,
    has_sql_concatenation,
    has_unsafe_file_ops,
    has_debug_info,
    has_broad_exception_handling,
    credential_locations,
    deserialization_locations,
    sql_locations,
    file_op_locations,
    debug_locations,
    exception_locations,
    results,                  \* what CodeSafetyAnalyzer.analyze_code returns
    \* ---- the caller of one analyzer instance
    kept                      \* an earlier call on the instance: its input and
                              \* what it returned

cxVars   == <<metrics, total_complexity, current_function, current_class,
             nested_depth, all_decision_points, current_decision_points,
             frames, visited, analysis>>
cfgVars  == <<threshold_warning, threshold_critical>>
hotVars  == <<hot_metrics, hotspots>>
cluVars  == <<points, clusters>>
flagVars == <<has_hardcoded_credentials, has_unsafe_deserialization,
             has_sql_concatenation, has_unsafe_file_ops, has_debug_info,
             has_broad_exception_handling>>
locVars  == <<credential_locations, deserialization_locations, sql_locations,
             file_op_locations, debug_locations, exception_locations>>
safeVars == <<tree, todo, flagVars, locVars, results>>
callVars == <<kept>>
vars     == <<pc, cxVars, cfgVars, callVars, hotVars, cluVars, safeVars>>

\* ------------------------------------------------------------------ bounds
MaxNodes == 4        \* nodes of the tree the complexity traversal visits
MaxDepth == 3        \* nesting of function and class definitions
MaxMetrics == 3      \* length of the list handed to _identify_hotspots
MaxCx == 3           \* complexities and thresholds range over 1..MaxCx
MaxPts == 6          \* length of the list handed to _find_decision_clusters
MaxStmts == 2        \* statements of the module the safety traversal walks

\* ------------------------------------------------------ program constants
DefaultWarning == 10
DefaultCritical == 15
window_size == 5
min_cluster_size == 3

\* Python's None, and the value of a result that does not exist yet.
None == "None"
NoResult == [error |-> "no call has returned"]

\* bool(x) of a value that is None or a str
Truthy(x) == x # None /\ x # ""

Last(s) == s[Len(s)]
Front(s) == SubSeq(s, 1, Len(s) - 1)
Max(a, b) == IF a >= b THEN a ELSE b

\* Tuples of integers in Python's lexicographic order.
KeyLT(a, b) ==
    \E i \in 1..Len(a) : a[i] < b[i] /\ \A j \in 1..(i - 1) : a[j] = b[j]

\* sorted(s, key=...), keys[i] being the key of s[i]: stable, so an element
\* goes after every element whose key is not greater than its own.
sorted(s, keys) ==
    LET ins(acc, i) ==
            LET k == Cardinality({j \in 1..Len(acc) : ~KeyLT(keys[i], acc[j][1])})
            IN  SubSeq(acc, 1, k) \o << <<keys[i], s[i]>> >>
                    \o SubSeq(acc, k + 1, Len(acc))
        F[i \in 0..Len(s)] == IF i = 0 THEN <<>> ELSE ins(F[i - 1], i)
        keyed == F[Len(s)]
    IN  [j \in 1..Len(s) |-> keyed[j][2]]

\* ======================================================================
\*  CyclomaticComplexityAnalyzer: severity, hotspots, clusters
\* ======================================================================

determine_severity_Strict(complexity) ==
    IF complexity > threshold_critical THEN "critical"
    ELSE IF complexity > threshold_warning THEN "warning"
    ELSE "normal"

determine_severity(complexity) ==
    IF complexity >= threshold_critical THEN "critical"
    ELSE IF complexity >= threshold_warning THEN "warning"
    ELSE "normal"

HotspotOf(metric) ==
    [name |-> metric.name, complexity |-> metric.complexity,
     line_number |-> metric.line_number, type |-> metric.type,
     severity |-> determine_severity(metric.complexity),
     nested_depth |-> metric.nested_depth,
     decision_points |-> metric.decision_points]

HotspotKey(x) == <<0 - x.complexity, x.line_number>>

identify_hotspots(ms) ==
    LET F[i \in 0..Len(ms)] ==
            IF i = 0 THEN <<>>
            ELSE IF determine_severity(ms[i].complexity) # "normal"
                 THEN Append(F[i - 1], HotspotOf(ms[i]))
                 ELSE F[i - 1]
        found == F[Len(ms)]
    IN  sorted(found, [i \in 1..Len(found) |-> HotspotKey(found[i])])

ClusterOf(current_cluster) ==
    [start_line |-> current_cluster[1].line,
     end_line |-> Last(current_cluster).line,
     size |-> Len(current_cluster),
     types |-> [i \in 1..Len(current_cluster) |-> current_cluster[i].type]]

PointKey(x) == <<x.line>>

sort_by_line(decision_points) ==
    sorted(decision_points,
           [i \in 1..Len(decision_points) |-> PointKey(decision_points[i])])

\* The loop of _find_decision_clusters after i points of sorted_points:
\* <<clusters, current_cluster>>.
ClusterScan(sorted_points) ==
    LET F[i \in 0..Len(sorted_points)] ==
            IF i = 0 THEN <<(<<>>), (<<>>)>>
            ELSE LET cl == F[i - 1][1]
                     cur == F[i - 1][2]
                     point == sorted_points[i]
                 IN  IF cur = <<>> \/ point.line - Last(cur).line <= window_size
                     THEN <<cl, Append(cur, point)>>
                     ELSE IF Len(cur) >= min_cluster_size
                          THEN <<Append(cl, ClusterOf(cur)), <<point>> >>
                          ELSE <<cl, <<point>> >>
    IN  F[Len(sorted_points)]

find_decision_clusters_NoLast(decision_points) ==
    ClusterScan(sort_by_line(decision_points))[1]

find_decision_clusters(decision_points) ==
    LET scan == ClusterScan(sort_by_line(decision_points))
    IN  IF Len(scan[2]) >= min_cluster_size
        THEN Append(scan[1], ClusterOf(scan[2]))
        ELSE scan[1]

\* ======================================================================
\*  ComplexityVisitor: one depth-first traversal
\* ======================================================================
FuncNames == {"f", "g"}
ClassNames == {"A"}

\* The line numbers of the function definitions enclosing the node the
\* traversal is at: the FunctionDef calls on the stack.
Enclosing ==
    LET fs == SelectSeq(frames, LAMBDA fr : fr.kind = "FunctionDef")
    IN  [i \in 1..Len(fs) |-> fs[i].lineno]

NextLine == Len(visited) + 1

CanVisit == pc = "walk" /\ Len(visited) < MaxNodes

\* visit() is handed the next node of the tree.
Visit(kind, name) ==
    visited' = Append(visited, [kind |-> kind, name |-> name,
                                lineno |-> NextLine, encl |-> Enclosing])

add_decision_point_NoRecord(lineno, decision_type) ==
    /\ current_decision_points' = current_decision_points
    /\ all_decision_points' = all_decision_points
    /\ total_complexity' = total_complexity + 1

add_decision_point(lineno, decision_type) ==
    LET point == [type |-> decision_type, line |-> lineno]
    IN  /\ current_decision_points' = Append(current_decision_points, point)
        /\ all_decision_points' = Append(all_decision_points, point)
        /\ total_complexity' = total_complexity + 1

NoDecisionPoint ==
    UNCHANGED <<current_decision_points, all_decision_points, total_complexity>>

idleRest == UNCHANGED <<cfgVars, callVars, hotVars, cluVars, safeVars>>

walkRest ==
    /\ UNCHANGED <<pc, metrics, current_function, current_class, nested_depth,
                   frames, analysis>>
    /\ idleRest

\* visit_ClassDef up to its generic_visit
visit_ClassDef_enter ==
    \E name \in ClassNames :
        /\ CanVisit
        /\ Len(frames) < MaxDepth
        /\ Visit("ClassDef", name)
        /\ frames' = Append(frames, [kind |-> "ClassDef", name |-> name,
                                     lineno |-> NextLine,
                                     previous_class |-> current_class])
        /\ current_class' = name
        /\ nested_depth' = nested_depth + 1
        /\ NoDecisionPoint
        /\ UNCHANGED <<pc, metrics, current_function, analysis>>
        /\ idleRest

\* visit_ClassDef after its generic_visit
visit_ClassDef_exit ==
    /\ pc = "walk"
    /\ frames # <<>>
    /\ Last(frames).kind = "ClassDef"
    /\ nested_depth' = nested_depth - 1
    /\ current_class' = Last(frames).previous_class
    /\ frames' = Front(frames)
    /\ NoDecisionPoint
    /\ UNCHANGED <<pc, metrics, current_function, visited, analysis>>
    /\ idleRest

\* visit_FunctionDef up to its generic_visit
visit_FunctionDef_enter ==
    \E name \in FuncNames :
        /\ CanVisit
        /\ Len(frames) < MaxDepth
        /\ Visit("FunctionDef", name)
        /\ frames' = Append(frames,
                [kind |-> "FunctionDef", name |-> name, lineno |-> NextLine,
                 previous_function |-> current_function,
                 previous_points |-> current_decision_points,
                 start_complexity |-> total_complexity])
        /\ current_function' = name
        /\ current_decision_points' = <<>>
        /\ nested_depth' = nested_depth + 1
        /\ UNCHANGED <<pc, metrics, current_class, all_decision_points,
                       total_complexity, analysis>>
        /\ idleRest

visit_FunctionDef_exit_NoRestore ==
    /\ pc = "walk"
    /\ frames # <<>>
    /\ Last(frames).kind = "FunctionDef"
    /\ LET fr == Last(frames)
           function_complexity == total_complexity - fr.start_complexity + 1
       IN  /\ metrics' = Append(metrics,
                    [name |-> fr.name, complexity |-> function_complexity,
                     line_number |-> fr.lineno, type |-> "function",
                     nested_depth |-> nested_depth,
                     decision_points |-> current_decision_points])
           /\ nested_depth' = nested_depth - 1
           /\ current_function' = fr.previous_function
           /\ current_decision_points' = current_decision_points
    /\ frames' = Front(frames)
    /\ UNCHANGED <<pc, current_class, all_decision_points, total_complexity,
                   visited, analysis>>
    /\ idleRest

visit_FunctionDef_exit_OwnPoints ==
    /\ pc = "walk"
    /\ frames # <<>>
    /\ Last(frames).kind = "FunctionDef"
    /\ LET fr == Last(frames)
           function_complexity == 1 + Len(current_decision_points)
       IN  /\ metrics' = Append(metrics,
                    [name |-> fr.name, complexity |-> function_complexity,
                     line_number |-> fr.lineno, type |-> "function",
                     nested_depth |-> nested_depth,
                     decision_points |-> current_decision_points])
           /\ nested_depth' = nested_depth - 1
           /\ current_function' = fr.previous_function
           /\ current_decision_points' = fr.previous_points
    /\ frames' = Front(frames)
    /\ UNCHANGED <<pc, current_class, all_decision_points, total_complexity,
                   visited, analysis>>
    /\ idleRest

\* visit_FunctionDef after its generic_visit
visit_FunctionDef_exit ==
    /\ pc = "walk"
    /\ frames # <<>>
    /\ Last(frames).kind = "FunctionDef"
    /\ LET fr == Last(frames)
           function_complexity == total_complexity - fr.start_complexity + 1
       IN  /\ metrics' = Append(metrics,
                    [name |-> fr.name, complexity |-> function_complexity,
                     line_number |-> fr.lineno, type |-> "function",
                     nested_depth |-> nested_depth,
                     decision_points |-> current_decision_points])
           /\ nested_depth' = nested_depth - 1
           /\ current_function' = fr.previous_function
           /\ current_decision_points' = fr.previous_points
    /\ frames' = Front(frames)
    /\ UNCHANGED <<pc, current_class, all_decision_points, total_complexity,
                   visited, analysis>>
    /\ idleRest

visit_If ==
    /\ CanVisit
    /\ Visit("If", "")
    /\ add_decision_point(NextLine, "if")
    /\ walkRest

visit_While ==
    /\ CanVisit
    /\ Visit("While", "")
    /\ add_decision_point(NextLine, "loop")
    /\ walkRest

visit_For ==
    /\ CanVisit
    /\ Visit("For", "")
    /\ add_decision_point(NextLine, "loop")
    /\ walkRest

visit_ExceptHandler ==
    /\ CanVisit
    /\ Visit("ExceptHandler", "")
    /\ add_decision_point(NextLine, "except")
    /\ walkRest

ReturnCounted_Always == TRUE

\* the test of visit_Return: "Only count returns inside functions"
ReturnCounted == Truthy(current_function)

visit_Return ==
    /\ CanVisit
    /\ Visit("Return", "")
    /\ IF ReturnCounted
       THEN add_decision_point(NextLine, "return")
       ELSE NoDecisionPoint
    /\ walkRest

\* node.op of a BoolOp is an ast.And or an ast.Or
visit_BoolOp ==
    \E op \in {"And", "Or"} :
        /\ CanVisit
        /\ Visit("BoolOp", op)
        /\ IF op \in {"And", "Or"}
           THEN add_decision_point(NextLine, "boolean_op")
           ELSE NoDecisionPoint
        /\ walkRest

\* any node without a visit_ method: generic_visit only
visit_other ==
    /\ CanVisit
    /\ Visit("Pass", "")
    /\ NoDecisionPoint
    /\ walkRest

\* max(m.complexity for m in ms) if ms else 0
max_complexity(ms) ==
    LET M[i \in 0..Len(ms)] ==
            IF i = 0 THEN 0 ELSE Max(M[i - 1], ms[i].complexity)
    IN  M[Len(ms)]

\* sum(values) of _calculate_average
sum_complexity(ms) ==
    LET M[i \in 0..Len(ms)] ==
            IF i = 0 THEN 0 ELSE M[i - 1] + ms[i].complexity
    IN  M[Len(ms)]

\* analyze_code once visitor.visit(tree) has returned.  The average is kept
\* as the pair <<sum, count>> of the division _calculate_average makes.
analyze_code_report ==
    /\ pc = "walk"
    /\ frames = <<>>
    /\ pc' = "done"
    /\ analysis' =
         [metrics |->
            [overall_complexity |-> total_complexity,
             average_function_complexity |->
                 <<sum_complexity(metrics), Len(metrics)>>,
             max_complexity |-> max_complexity(metrics),
             total_decision_points |-> Len(all_decision_points),
             unique_decision_types |->
                 Cardinality({all_decision_points[i].type :
                                 i \in 1..Len(all_decision_points)})],
          hotspots |-> identify_hotspots(metrics),
          details |-> metrics,
          clusters |-> find_decision_clusters(all_decision_points)]
    /\ UNCHANGED <<metrics, total_complexity, current_function, current_class,
                   nested_depth, all_decision_points, current_decision_points,
                   frames, visited>>
    /\ idleRest

\* ---------------------------------------------------------- idle values
IdleCx ==
    /\ metrics = <<>>
    /\ total_complexity = 1
    /\ current_function = None
    /\ current_class = None
    /\ nested_depth = 0
    /\ all_decision_points = <<>>
    /\ current_decision_points = <<>>
    /\ frames = <<>>
    /\ visited = <<>>
    /\ analysis = NoResult

DefaultCfg ==
    /\ threshold_warning = DefaultWarning
    /\ threshold_critical = DefaultCritical

IdleHot == hot_metrics = <<>> /\ hotspots = <<>>

IdleClu == points = <<>> /\ clusters = <<>>

IdleSafe ==
    /\ tree = <<>>
    /\ todo = <<>>
    /\ has_hardcoded_credentials = FALSE
    /\ has_unsafe_deserialization = FALSE
    /\ has_sql_concatenation = FALSE
    /\ has_unsafe_file_ops = FALSE
    /\ has_debug_info = FALSE
    /\ has_broad_exception_handling = FALSE
    /\ credential_locations = <<>>
    /\ deserialization_locations = <<>>
    /\ sql_locations = <<>>
    /\ file_op_locations = <<>>
    /\ debug_locations = <<>>
    /\ exception_locations = <<>>
    /\ results = NoResult

\* No call on the instance has been kept.
IdleCall == kept = <<>>

\* ------------------------------------------------------------------ Spec
\* ComplexityVisitor() built by analyze_code of a default analyzer.
Init ==
    /\ IdleCall
    /\ pc = "walk"
    /\ IdleCx
    /\ DefaultCfg
    /\ IdleHot
    /\ IdleClu
    /\ IdleSafe

Next ==
    \/ visit_ClassDef_enter
    \/ visit_ClassDef_exit
    \/ visit_FunctionDef_enter
    \/ visit_FunctionDef_exit
    \/ visit_If
    \/ visit_While
    \/ visit_For
    \/ visit_ExceptHandler
    \/ visit_Return
    \/ visit_BoolOp
    \/ visit_other
    \/ analyze_code_report

Spec == Init /\ [][Next]_vars


\* Nodes that the complexity traversal is meant to count: conditionals,
\* loops, handlers, boolean operators, and returns inside a function.
Counted(n) ==
    \/ n.kind \in {"If", "While", "For", "ExceptHandler", "BoolOp"}
    \/ n.kind = "Return" /\ n.encl # <<>>

CountedNodes == {i \in 1..Len(visited) : Counted(visited[i])}

\* C1 (as claimed): every emitted ComplexityMetric has
\* complexity == 1 + the number of entries of its own decision_points list,
\* also when a function definition is nested inside another function.
C1_ComplexityIsOwnPoints ==
    \A i \in 1..Len(metrics) :
        metrics[i].complexity = 1 + Len(metrics[i].decision_points)

\* C2: at every point of the traversal and in the returned report, the overall
\* complexity is 1 + the number of decision points recorded for the unit; a
\* unit with no counted construct has overall complexity 1 and no decision
\* points.
C2_TotalIsOnePlusPoints ==
    /\ total_complexity = 1 + Len(all_decision_points)
    /\ CountedNodes = {} => total_complexity = 1 /\ all_decision_points = <<>>
    /\ pc = "done" =>
         /\ analysis.metrics.overall_complexity
              = 1 + analysis.metrics.total_decision_points
         /\ analysis.metrics.total_decision_points = Len(all_decision_points)
         /\ CountedNodes = {} =>
              /\ analysis.metrics.overall_complexity = 1
              /\ analysis.metrics.total_decision_points = 0

C2_Witness ==
    /\ pc = "done"
    /\ analysis.metrics.total_decision_points = 3
    /\ analysis.metrics.overall_complexity = 4
    /\ Len(metrics) = 1

\* C3: a return visited outside every function definition (module level,
\* a class body, after an earlier function was left) records nothing and
\* leaves the overall complexity alone; a return visited inside a function
\* definition records exactly one 'return' decision point, at its line.
C3_ReturnOnlyInsideFunction ==
    LET rec == SelectSeq(all_decision_points, LAMBDA p : p.type = "return")
        ret == SelectSeq(visited, LAMBDA n : n.kind = "Return" /\ n.encl # <<>>)
    IN  /\ Len(rec) = Len(ret)
        /\ \A i \in 1..Len(rec) : rec[i].line = ret[i].lineno
        /\ total_complexity = 1 + Cardinality(CountedNodes)

C3_Witness ==
    \E i, j, k \in 1..Len(visited) :
        /\ i < j /\ j < k
        /\ visited[i].kind = "FunctionDef"
        /\ visited[j].kind = "Return" /\ visited[j].encl = <<i>>
        /\ visited[k].kind = "Return" /\ visited[k].encl = <<>>
        /\ Len(metrics) = 1
        /\ total_complexity = 2

\* ======================================================================
\*  SpecHot: _identify_hotspots on any list of metrics, any thresholds
\* ======================================================================
HotLines == {3, 8}

FuncNameAt(i) == IF i % 2 = 1 THEN "f" ELSE "g"

InitHot ==
    /\ IdleCall
    /\ pc = "hot_call"
    /\ IdleCx
    /\ IdleClu
    /\ IdleSafe
    /\ threshold_warning \in 1..MaxCx
    /\ threshold_critical \in 1..MaxCx
    /\ hotspots = <<>>
    /\ \E n \in 0..MaxMetrics :
         \E cs \in [1..n -> 1..MaxCx], ls \in [1..n -> HotLines] :
            hot_metrics = [i \in 1..n |->
                [name |-> FuncNameAt(i), complexity |-> cs[i],
                 line_number |-> ls[i], type |-> "function",
                 nested_depth |-> 1, decision_points |-> <<>>]]

identify_hotspots_call ==
    /\ pc = "hot_call"
    /\ pc' = "hot_done"
    /\ hotspots' = identify_hotspots(hot_metrics)
    /\ UNCHANGED <<hot_metrics, cxVars, cfgVars, callVars, cluVars, safeVars>>

NextHot == identify_hotspots_call

SpecHot == InitHot /\ [][NextHot]_vars

\* The severity the specification assigns to a complexity.
ClaimedSeverity(c) ==
    IF c >= threshold_critical THEN "critical"
    ELSE IF threshold_warning <= c /\ c < threshold_critical THEN "warning"
    ELSE "normal"

MetricOfHotspot(h) ==
    [name |-> h.name, complexity |-> h.complexity,
     line_number |-> h.line_number, type |-> h.type,
     nested_depth |-> h.nested_depth, decision_points |-> h.decision_points]

\* C4: the hotspots are exactly the metrics whose severity is not normal,
\* each with its severity, ordered by falling complexity and, among equal
\* complexities, by rising line number.
C4_HotspotsFilteredAndOrdered ==
    pc = "hot_done" =>
        /\ \A j \in 1..Len(hotspots) :
              /\ hotspots[j].severity = ClaimedSeverity(hotspots[j].complexity)
              /\ hotspots[j].severity # "normal"
        /\ \A i \in 1..Len(hot_metrics) :
              LET m == hot_metrics[i]
                  inM == {k \in 1..Len(hot_metrics) : hot_metrics[k] = m}
                  inH == {k \in 1..Len(hotspots) : MetricOfHotspot(hotspots[k]) = m}
              IN  Cardinality(inH) =
                    IF ClaimedSeverity(m.complexity) # "normal"
                    THEN Cardinality(inM) ELSE 0
        /\ Len(hotspots) =
              Cardinality({k \in 1..Len(hot_metrics) :
                  ClaimedSeverity(hot_metrics[k].complexity) # "normal"})
        /\ \A i, j \in 1..Len(hotspots) :
              /\ hotspots[i].complexity > hotspots[j].complexity => i < j
              /\ (/\ hotspots[i].complexity = hotspots[j].complexity
                  /\ hotspots[i].line_number < hotspots[j].line_number) => i < j

C4_Witness ==
    /\ pc = "hot_done"
    /\ Len(hot_metrics) = 3
    /\ Len(hotspots) = 2
    /\ hot_metrics[1].complexity < hot_metrics[3].complexity
    /\ hotspots[1].severity = "critical"
    /\ hotspots[2].severity = "warning"

\* ======================================================================
\*  SpecClu: _find_decision_clusters on any list of decision points
\* ======================================================================
LineVals == {1, 2, 7, 13, 14}

DecisionTypes == <<"if", "loop", "except", "boolean_op", "return">>

TypeAt(i) == DecisionTypes[((i - 1) % Len(DecisionTypes)) + 1]

InitClu ==
    /\ IdleCall
    /\ pc = "clu_call"
    /\ IdleCx
    /\ DefaultCfg
    /\ IdleHot
    /\ IdleSafe
    /\ clusters = <<>>
    /\ \E n \in 0..MaxPts :
         \E ls \in [1..n -> LineVals] :
            points = [i \in 1..n |-> [type |-> TypeAt(i), line |-> ls[i]]]

find_decision_clusters_call ==
    /\ pc = "clu_call"
    /\ pc' = "clu_done"
    /\ clusters' = find_decision_clusters(points)
    /\ UNCHANGED <<points, cxVars, cfgVars, callVars, hotVars, safeVars>>

NextClu == find_decision_clusters_call

SpecClu == InitClu /\ [][NextClu]_vars

PointLines == {points[i].line : i \in 1..Len(points)}

\* Every line of the input from a up to b is followed, within the window, by
\* another line of the input.
Chained(a, b) ==
    \A l \in PointLines :
        (a <= l /\ l < b) =>
            \E l2 \in PointLines : l < l2 /\ l2 <= l + window_size /\ l2 <= b

MaximalRun(a, b) ==
    /\ a <= b
    /\ Chained(a, b)
    /\ ~\E l \in PointLines : l < a /\ a - l <= window_size
    /\ ~\E l \in PointLines : l > b /\ l - b <= window_size

PointsIn(a, b) == {i \in 1..Len(points) : a <= points[i].line /\ points[i].line <= b}

ExpectedClusters ==
    {<<a, b, Cardinality(PointsIn(a, b))>> :
        a \in PointLines, b \in PointLines} \cap
    {r \in PointLines \X PointLines \X (min_cluster_size..Len(points)) :
        MaximalRun(r[1], r[2])}

\* C5: the clusters are exactly the maximal runs of the line-sorted points
\* with consecutive gaps of at most 5 lines and at least 3 points, a run
\* reaching the end of the input included; so each has size >= 3, gaps
\* <= 5 inside, and no two overlap.
C5_ClustersAreMaximalRuns ==
    pc = "clu_done" =>
        /\ {<<clusters[k].start_line, clusters[k].end_line, clusters[k].size>> :
               k \in 1..Len(clusters)} = ExpectedClusters
        /\ Len(clusters) = Cardinality(ExpectedClusters)
        /\ \A k \in 1..Len(clusters) :
              LET c == clusters[k]
              IN  /\ c.size >= min_cluster_size
                  /\ Len(c.types) = c.size
                  /\ Chained(c.start_line, c.end_line)
                  /\ \A t \in {"if", "loop", "except", "boolean_op", "return"} :
                        Cardinality({i \in 1..Len(c.types) : c.types[i] = t})
                          = Cardinality({i \in PointsIn(c.start_line, c.end_line) :
                                            points[i].type = t})
        /\ \A j, k \in 1..Len(clusters) :
              j < k => clusters[j].end_line < clusters[k].start_line

C5_Witness ==
    /\ pc = "clu_done"
    /\ Len(clusters) = 2
    /\ Len(points) = 6
    /\ points[1].line > points[2].line
    /\ clusters[1].end_line - clusters[1].start_line = 6
    /\ clusters[2].end_line = 14


\* ======================================================================
\*  CodeSafetyAnalyzer: text, syntax trees, CodeVisitor
\* ======================================================================
\* Python strings are sequences of one-character strings, so that lower()
\* and the substring test `in` are computed, not assumed.
UpperCase == <<"A", "B", "C", "D", "E", "F", "G", "H", "I", "J", "K", "L", "M", "N", "O", "P", "Q", "R", "S", "T", "U", "V", "W", "X", "Y", "Z">>
LowerCase == <<"a", "b", "c", "d", "e", "f", "g", "h", "i", "j", "k", "l", "m", "n", "o", "p", "q", "r", "s", "t", "u", "v", "w", "x", "y", "z">>

LowerChar(c) ==
    IF \E i \in 1..Len(UpperCase) : UpperCase[i] = c
    THEN LowerCase[CHOOSE i \in 1..Len(UpperCase) : UpperCase[i] = c]
    ELSE c

\* str.lower()
Lower(s) == [i \in 1..Len(s) |-> LowerChar(s[i])]

\* sub in s
Contains(sub, s) ==
    \E k \in 0..(Len(s) - Len(sub)) : SubSeq(s, k + 1, k + Len(sub)) = sub

s_password == <<"p", "a", "s", "s", "w", "o", "r", "d">>
s_secret == <<"s", "e", "c", "r", "e", "t">>
s_key == <<"k", "e", "y">>
s_token == <<"t", "o", "k", "e", "n">>
s_select == <<"s", "e", "l", "e", "c", "t">>
s_insert == <<"i", "n", "s", "e", "r", "t">>
s_update == <<"u", "p", "d", "a", "t", "e">>
s_delete == <<"d", "e", "l", "e", "t", "e">>
s_where == <<"w", "h", "e", "r", "e">>
s_from == <<"f", "r", "o", "m">>
s_pickle_loads == <<"p", "i", "c", "k", "l", "e", ".", "l", "o", "a", "d", "s">>
s_yaml_load == <<"y", "a", "m", "l", ".", "l", "o", "a", "d">>
s_print == <<"p", "r", "i", "n", "t">>
s_logging_debug == <<"l", "o", "g", "g", "i", "n", "g", ".", "d", "e", "b", "u", "g">>
s_Exception == <<"E", "x", "c", "e", "p", "t", "i", "o", "n">>
s_space == << " " >>

\* the list in visit_Assign
credential_words == {s_password, s_secret, s_key, s_token}
\* sql_keywords of _is_sql_string
sql_keywords == {s_select, s_insert, s_update, s_delete, s_where, s_from}
\* the lists in visit_Call
unsafe_deserializers == {s_pickle_loads, s_yaml_load}
debug_functions == {s_print, s_logging_debug}

\* ---- the nodes ast.parse can hand to the visitor
Name(id) == [kind |-> "Name", id |-> id]
Attribute(value, attr) == [kind |-> "Attribute", value |-> value, attr |-> attr]
\* ast.Constant: vtype is the Python type of .value, text its characters
Constant(vtype, text) == [kind |-> "Constant", vtype |-> vtype, text |-> text]
Str(text) == Constant("str", text)
BinOp(left, op, right) == [kind |-> "BinOp", left |-> left, op |-> op, right |-> right]
Call(func, args) == [kind |-> "Call", func |-> func, args |-> args]
NoType == [kind |-> "NoneType"]
Assign(targets, value) == [kind |-> "Assign", targets |-> targets, value |-> value]
ExprStmt(value) == [kind |-> "Expr", value |-> value]
ExceptHandler(type) == [kind |-> "ExceptHandler", type |-> type]
Try(handlers) == [kind |-> "Try", handlers |-> handlers]

\* ---- the inputs: small sets of names, literals and statements
s_API_KEY == <<"A", "P", "I", "_", "K", "E", "Y">>
s_query == <<"q", "u", "e", "r", "y">>
s_user_input == <<"u", "s", "e", "r", "_", "i", "n", "p", "u", "t">>
s_self == <<"s", "e", "l", "f">>
s_Sel == <<"S", "e", "l">>
s_ect == <<"e", "c", "t">>
s_FROM == <<"F", "R", "O", "M", " ">>
s_txt == <<".", "t", "x", "t">>
s_hunter2 == <<"h", "u", "n", "t", "e", "r", "2">>
s_zero == <<"0">>
s_None == <<"N", "o", "n", "e">>
s_open == <<"o", "p", "e", "n">>
s_pickle == <<"p", "i", "c", "k", "l", "e">>
s_loads == <<"l", "o", "a", "d", "s">>
s_yaml == <<"y", "a", "m", "l">>
s_load == <<"l", "o", "a", "d">>
s_ValueError == <<"V", "a", "l", "u", "e", "E", "r", "r", "o", "r">>

TargetLists ==
    { <<Name(s_password)>>, <<Name(s_API_KEY)>>, <<Name(s_query)>>,
      <<Name(s_password), Name(s_API_KEY)>>,
      <<Attribute(Name(s_self), s_token)>> }

SimpleValues ==
    { Str(s_hunter2), Constant("int", s_zero), Constant("NoneType", s_None),
      Name(s_user_input) }

Operands == { Name(s_user_input), Str(s_Sel), Str(s_ect), Str(s_FROM) }

SimpleBinOps ==
    {BinOp(l, "Add", r) : l \in Operands, r \in Operands}
        \cup {BinOp(Str(s_FROM), "Mod", Name(s_user_input))}

ChainedBinOps ==
    {BinOp(b, "Add", r) :
        b \in {BinOp(Str(s_FROM), "Add", Name(s_user_input)),
               BinOp(Name(s_user_input), "Add", Name(s_user_input))},
        r \in Operands}

Callees ==
    { Name(s_print), Name(s_open), Name(s_loads),
      Attribute(Name(s_pickle), s_loads), Attribute(Name(s_yaml), s_load) }

ArgLists ==
    { <<Name(s_user_input)>>,
      <<BinOp(Name(s_user_input), "Add", Str(s_txt))>> }

HandlerTypes == { NoType, Name(s_Exception), Name(s_ValueError) }

Statements ==
    {Assign(t, v) : t \in TargetLists, v \in SimpleValues}
        \cup {Assign(<<Name(s_query)>>, b) : b \in SimpleBinOps \cup ChainedBinOps}
        \cup {ExprStmt(Call(f, a)) : f \in Callees, a \in ArgLists}
        \cup {Try(<<ExceptHandler(t)>>) : t \in HandlerTypes}

\* The fields generic_visit iterates, in the order of the node's _fields.
\* A handler stands one line below its try.
Children(n, lineno) ==
    CASE n.kind = "Assign" ->
             [i \in 1..Len(n.targets) |-> <<n.targets[i], lineno>>]
                 \o << <<n.value, lineno>> >>
      [] n.kind = "Expr" -> << <<n.value, lineno>> >>
      [] n.kind = "Call" ->
             << <<n.func, lineno>> >>
                 \o [i \in 1..Len(n.args) |-> <<n.args[i], lineno>>]
      [] n.kind = "BinOp" -> << <<n.left, lineno>>, <<n.right, lineno>> >>
      [] n.kind = "Attribute" -> << <<n.value, lineno>> >>
      [] n.kind = "Try" ->
             [i \in 1..Len(n.handlers) |-> <<n.handlers[i], lineno + 1>>]
      [] n.kind = "ExceptHandler" ->
             IF n.type = NoType THEN <<>> ELSE << <<n.type, lineno>> >>
      [] OTHER -> <<>>

\* isinstance(n, ast.Str): ast.Str is the deprecated alias whose instance
\* check accepts exactly the Constant nodes holding a str
IsStr(n) == n.kind = "Constant" /\ n.vtype = "str"

\* isinstance(node.value, (ast.Str, ast.Constant))
IsCredentialValue(value) == IsStr(value) \/ value.kind = "Constant"

\* get_string_value of _is_sql_string
get_string_value(n) ==
    IF IsStr(n) THEN n.text
    ELSE IF n.kind = "Constant" /\ n.vtype = "str" THEN n.text
    ELSE <<>>

is_sql_string(node) ==
    IF node.kind = "BinOp"
    THEN LET left_str == get_string_value(node.left)
             right_str == get_string_value(node.right)
             combined == Lower(left_str \o s_space \o right_str)
         IN  \E keyword \in sql_keywords : Contains(keyword, combined)
    ELSE FALSE

Head2(s) == s[1]

StepTo(n, lineno) == todo' = Children(n, lineno) \o Tail(todo)

SafeWalking == pc = "safe_walk" /\ todo # <<>>

safeRest == UNCHANGED <<pc, tree, results, cxVars, cfgVars, callVars, hotVars, cluVars>>

\* The names among the targets that look like credentials, one entry per
\* matching target: the loop of visit_Assign.
CredentialHits(node) ==
    SelectSeq(node.targets,
        LAMBDA target :
            /\ target.kind = "Name"
            /\ \E cred \in credential_words : Contains(cred, Lower(target.id))
            /\ IsCredentialValue(node.value))

CodeVisitor_visit_Assign ==
    /\ SafeWalking
    /\ Head2(todo)[1].kind = "Assign"
    /\ LET node == Head2(todo)[1]
           lineno == Head2(todo)[2]
           hits == CredentialHits(node)
       IN  /\ has_hardcoded_credentials' =
                 (has_hardcoded_credentials \/ hits # <<>>)
           /\ credential_locations' =
                 credential_locations \o [i \in 1..Len(hits) |-> lineno]
           /\ StepTo(node, lineno)
    /\ UNCHANGED <<has_unsafe_deserialization, has_sql_concatenation,
                   has_unsafe_file_ops, has_debug_info,
                   has_broad_exception_handling, deserialization_locations,
                   sql_locations, file_op_locations, debug_locations,
                   exception_locations>>
    /\ safeRest

CodeVisitor_visit_Call ==
    /\ SafeWalking
    /\ Head2(todo)[1].kind = "Call"
    /\ LET node == Head2(todo)[1]
           lineno == Head2(todo)[2]
           named == node.func.kind = "Name"
           unsafe == named /\ node.func.id \in unsafe_deserializers
           debug == named /\ node.func.id \in debug_functions
       IN  /\ has_unsafe_deserialization' = (has_unsafe_deserialization \/ unsafe)
           /\ deserialization_locations' =
                 IF unsafe THEN Append(deserialization_locations, lineno)
                 ELSE deserialization_locations
           /\ has_debug_info' = (has_debug_info \/ debug)
           /\ debug_locations' =
                 IF debug THEN Append(debug_locations, lineno)
                 ELSE debug_locations
           /\ StepTo(node, lineno)
    /\ UNCHANGED <<has_hardcoded_credentials, has_sql_concatenation,
                   has_unsafe_file_ops, has_broad_exception_handling,
                   credential_locations, sql_locations, file_op_locations,
                   exception_locations>>
    /\ safeRest

CodeVisitor_visit_BinOp ==
    /\ SafeWalking
    /\ Head2(todo)[1].kind = "BinOp"
    /\ LET node == Head2(todo)[1]
           lineno == Head2(todo)[2]
           sql == /\ node.op = "Add"
                  /\ IsStr(node.left) \/ IsStr(node.right)
                  /\ is_sql_string(node)
       IN  /\ has_sql_concatenation' = (has_sql_concatenation \/ sql)
           /\ sql_locations' =
                 IF sql THEN Append(sql_locations, lineno) ELSE sql_locations
           /\ StepTo(node, lineno)
    /\ UNCHANGED <<has_hardcoded_credentials, has_unsafe_deserialization,
                   has_unsafe_file_ops, has_debug_info,
                   has_broad_exception_handling, credential_locations,
                   deserialization_locations, file_op_locations,
                   debug_locations, exception_locations>>
    /\ safeRest

CodeVisitor_visit_ExceptHandler ==
    /\ SafeWalking
    /\ Head2(todo)[1].kind = "ExceptHandler"
    /\ LET node == Head2(todo)[1]
           lineno == Head2(todo)[2]
           broad == \/ node.type = NoType
                    \/ node.type.kind = "Name" /\ node.type.id = s_Exception
       IN  /\ has_broad_exception_handling' =
                 (has_broad_exception_handling \/ broad)
           /\ exception_locations' =
                 IF broad THEN Append(exception_locations, lineno)
                 ELSE exception_locations
           /\ StepTo(node, lineno)
    /\ UNCHANGED <<has_hardcoded_credentials, has_unsafe_deserialization,
                   has_sql_concatenation, has_unsafe_file_ops, has_debug_info,
                   credential_locations, deserialization_locations,
                   sql_locations, file_op_locations, debug_locations>>
    /\ safeRest

\* a node CodeVisitor has no visit_ method for
CodeVisitor_generic_visit ==
    /\ SafeWalking
    /\ Head2(todo)[1].kind \notin {"Assign", "Call", "BinOp", "ExceptHandler"}
    /\ StepTo(Head2(todo)[1], Head2(todo)[2])
    /\ UNCHANGED <<flagVars, locVars>>
    /\ safeRest


\* ---- CodeSafetyAnalyzer: catalog, metrics, findings, recommendations
patterns ==
    [hardcoded_credentials |->
        [name |-> "Hardcoded Credentials", risk_level |-> "high",
         category |-> "security"],
     unsafe_deserialization |->
        [name |-> "Unsafe Deserialization", risk_level |-> "high",
         category |-> "security"],
     sql_concatenation |->
        [name |-> "SQL String Concatenation", risk_level |-> "high",
         category |-> "security"],
     file_path_manipulation |->
        [name |-> "Unsafe File Path Handling", risk_level |-> "medium",
         category |-> "security"],
     debug_info |->
        [name |-> "Debug Information", risk_level |-> "low",
         category |-> "best_practice"],
     error_suppression |->
        [name |-> "Broad Error Suppression", risk_level |-> "medium",
         category |-> "reliability"]]

\* ast.walk: every node under the given ones, each with its line
RECURSIVE WalkAll(_)
WalkAll(list) ==
    IF list = <<>> THEN <<>>
    ELSE <<list[1]>> \o WalkAll(Children(list[1][1], list[1][2]) \o Tail(list))

ModuleBody(t) == [i \in 1..Len(t) |-> <<t[i].stmt, t[i].lineno>>]

CountKinds(t, kinds) ==
    LET nodes == WalkAll(ModuleBody(t))
    IN  Cardinality({i \in 1..Len(nodes) : nodes[i][1].kind \in kinds})

\* _calculate_metrics, with the ComplexityVisitor of CodeSafetyAnalyzer.py
calculate_metrics(t) ==
    [cyclomatic_complexity |-> 1 + CountKinds(t, {"If", "While", "For", "And", "Or"}),
     number_of_functions |-> CountKinds(t, {"FunctionDef"}),
     number_of_classes |-> CountKinds(t, {"ClassDef"}),
     lines_of_code |-> 0,
     comment_ratio |-> 0]

Finding(flag, key, locations) ==
    IF flag THEN << [pattern |-> patterns[key], locations |-> locations] >>
    ELSE <<>>

analyze_patterns ==
    Finding(has_hardcoded_credentials, "hardcoded_credentials", credential_locations)
    \o Finding(has_unsafe_deserialization, "unsafe_deserialization",
               deserialization_locations)
    \o Finding(has_sql_concatenation, "sql_concatenation", sql_locations)
    \o Finding(has_unsafe_file_ops, "file_path_manipulation", file_op_locations)
    \o Finding(has_debug_info, "debug_info", debug_locations)
    \o Finding(has_broad_exception_handling, "error_suppression",
               exception_locations)

ComplexityLimit == 10

generate_recommendations(findings, ms) ==
    [i \in 1..Len(findings) |->
        [title |-> <<"Address", findings[i].pattern.name>>,
         priority |-> findings[i].pattern.risk_level]]
    \o (IF ms.cyclomatic_complexity > ComplexityLimit
        THEN << [title |-> <<"Reduce Code Complexity">>, priority |-> "medium"] >>
        ELSE <<>>)

\* analyze_code once visitor.visit(tree) has returned
CodeSafetyAnalyzer_analyze_code_return ==
    /\ pc = "safe_walk"
    /\ todo = <<>>
    /\ pc' = "safe_done"
    /\ LET findings == analyze_patterns
           ms == calculate_metrics(tree)
       IN  results' = [findings |-> findings, metrics |-> ms,
                       recommendations |-> generate_recommendations(findings, ms)]
    /\ UNCHANGED <<tree, todo, flagVars, locVars, cxVars, cfgVars, callVars, hotVars, cluVars>>

\* CodeVisitor() about to visit the module ast.parse returned
InitSafe ==
    /\ IdleCall
    /\ pc = "safe_walk"
    /\ IdleCx
    /\ DefaultCfg
    /\ IdleHot
    /\ IdleClu
    /\ \E n \in 0..MaxStmts :
         \E ss \in [1..n -> Statements], ls \in [1..n -> 1..MaxStmts] :
            /\ \A i \in 1..(n - 1) : ls[i] <= ls[i + 1]
            /\ tree = [i \in 1..n |-> [stmt |-> ss[i], lineno |-> ls[i]]]
    /\ todo = ModuleBody(tree)
    /\ has_hardcoded_credentials = FALSE
    /\ has_unsafe_deserialization = FALSE
    /\ has_sql_concatenation = FALSE
    /\ has_unsafe_file_ops = FALSE
    /\ has_debug_info = FALSE
    /\ has_broad_exception_handling = FALSE
    /\ credential_locations = <<>>
    /\ deserialization_locations = <<>>
    /\ sql_locations = <<>>
    /\ file_op_locations = <<>>
    /\ debug_locations = <<>>
    /\ exception_locations = <<>>
    /\ results = NoResult

NextSafe ==
    \/ CodeVisitor_visit_Assign
    \/ CodeVisitor_visit_Call
    \/ CodeVisitor_visit_BinOp
    \/ CodeVisitor_visit_ExceptHandler
    \/ CodeVisitor_generic_visit
    \/ CodeSafetyAnalyzer_analyze_code_return

SpecSafe == InitSafe /\ [][NextSafe]_vars

\* ---- what the claims about the safety report speak of
TreeNodes == WalkAll(ModuleBody(tree))

\* the lines of the nodes of the analysed module that satisfy P
LinesWhere(P(_)) ==
    {TreeNodes[i][2] : i \in {k \in 1..Len(TreeNodes) : P(TreeNodes[k][1])}}

\* the lines the report gives for a pattern; none when it has no Finding
ReportedLines(name) ==
    UNION {{f.locations[i] : i \in 1..Len(f.locations)} :
            f \in {results.findings[k] : k \in
                     {j \in 1..Len(results.findings) :
                         results.findings[j].pattern.name = name}}}

\* C6 (as claimed): in a successful safety report no pattern appears in two
\* Findings, and no line number appears twice in a Finding's locations, even
\* when several matching nodes lie on one line.
C6_FindingsAndLocationsUnique ==
    pc = "safe_done" =>
        /\ \A i, j \in 1..Len(results.findings) :
              i # j => results.findings[i].pattern # results.findings[j].pattern
        /\ \A k \in 1..Len(results.findings) :
              LET locs == results.findings[k].locations
              IN  \A a, b \in 1..Len(locs) : a # b => locs[a] # locs[b]

ClaimedCredential(n) ==
    /\ n.kind = "Assign"
    /\ \E i \in 1..Len(n.targets) :
          /\ n.targets[i].kind = "Name"
          /\ \E w \in {s_password, s_secret, s_key, s_token} :
                Contains(w, Lower(n.targets[i].id))
    /\ n.value.kind = "Constant"
    /\ n.value.vtype = "str"

\* C7 (as claimed): the hardcoded-credentials check flags the line of an
\* assignment if and only if a target name, lower-cased, contains password,
\* secret, key or token and the assigned value is a string literal.
C7_CredentialsOnlyStringLiterals ==
    pc = "safe_done" =>
        ReportedLines("Hardcoded Credentials") = LinesWhere(ClaimedCredential)

LiteralText(n) ==
    IF n.kind = "Constant" /\ n.vtype = "str" THEN n.text ELSE <<>>

ClaimedSql(n) ==
    /\ n.kind = "BinOp"
    /\ n.op = "Add"
    /\ \/ n.left.kind = "Constant" /\ n.left.vtype = "str"
       \/ n.right.kind = "Constant" /\ n.right.vtype = "str"
    /\ \E w \in {s_select, s_insert, s_update, s_delete, s_where, s_from} :
          Contains(w, Lower(LiteralText(n.left) \o LiteralText(n.right)))

\* C8 (as claimed): the SQL check flags the line of a '+' node if and only
\* if one of its two operands is a string literal and the lower-cased direct
\* concatenation of the operands' literal texts contains an SQL keyword.
C8_SqlDirectConcatenation ==
    pc = "safe_done" =>
        ReportedLines("SQL String Concatenation") = LinesWhere(ClaimedSql)

\* the dotted name a callee is written as
CalleeText(f) ==
    IF f.kind = "Name" THEN f.id
    ELSE IF f.kind = "Attribute" /\ f.value.kind = "Name"
         THEN f.value.id \o <<".">> \o f.attr
         ELSE <<>>

ClaimedDeserialize(n) ==
    n.kind = "Call" /\ CalleeText(n.func) \in {s_pickle_loads, s_yaml_load}

\* C9 (as claimed): the line of every call of pickle.loads or yaml.load is
\* among the locations of an Unsafe Deserialization Finding.
C9_DeserializeCallsReported ==
    pc = "safe_done" =>
        LinesWhere(ClaimedDeserialize) \subseteq ReportedLines("Unsafe Deserialization")

ClaimedFileOpen(n) ==
    /\ n.kind = "Call"
    /\ CalleeText(n.func) = s_open
    /\ Len(n.args) >= 1
    /\ n.args[1].kind = "BinOp"
    /\ n.args[1].op = "Add"
    /\ n.args[1].left.kind = "Name" \/ n.args[1].right.kind = "Name"

\* C10 (as claimed): the line of every open() call whose path is a string
\* concatenation with an identifier is among the locations of an Unsafe File
\* Path Handling Finding.
C10_FileOpenCallsReported ==
    pc = "safe_done" =>
        LinesWhere(ClaimedFileOpen) \subseteq ReportedLines("Unsafe File Path Handling")

\* ======================================================================
\*  SpecErr: one analyze_code call of either analyzer, from ast.parse on,
\*  with the exceptions its try block can meet
\* ======================================================================
\* An exception leaves the try block: the visitor, a local of the call, is
\* gone, and nothing has been returned yet.
DropComplexityVisitor ==
    /\ metrics' = <<>>
    /\ total_complexity' = 1
    /\ current_function' = None
    /\ current_class' = None
    /\ nested_depth' = 0
    /\ all_decision_points' = <<>>
    /\ current_decision_points' = <<>>
    /\ frames' = <<>>
    /\ visited' = <<>>
    /\ UNCHANGED analysis

DropCodeVisitor ==
    /\ tree' = <<>>
    /\ todo' = <<>>
    /\ has_hardcoded_credentials' = FALSE
    /\ has_unsafe_deserialization' = FALSE
    /\ has_sql_concatenation' = FALSE
    /\ has_unsafe_file_ops' = FALSE
    /\ has_debug_info' = FALSE
    /\ has_broad_exception_handling' = FALSE
    /\ credential_locations' = <<>>
    /\ deserialization_locations' = <<>>
    /\ sql_locations' = <<>>
    /\ file_op_locations' = <<>>
    /\ debug_locations' = <<>>
    /\ exception_locations' = <<>>
    /\ UNCHANGED results

\* ---- CyclomaticComplexityAnalyzer.analyze_code
\* ast.parse(code) returns a tree
ast_parse_ok ==
    /\ pc = "parse"
    /\ pc' = "walk"
    /\ UNCHANGED <<cxVars, cfgVars, callVars, hotVars, cluVars, safeVars>>

\* ast.parse(code) raises SyntaxError
ast_parse_SyntaxError ==
    /\ pc = "parse"
    /\ pc' = "except_SyntaxError"
    /\ UNCHANGED <<cxVars, cfgVars, callVars, hotVars, cluVars, safeVars>>

\* any other exception inside the try block: a ValueError or MemoryError of
\* ast.parse, a RecursionError of the recursive visit
raise_Exception ==
    /\ pc \in {"parse", "walk"}
    /\ pc' = "except_Exception"
    /\ DropComplexityVisitor
    /\ UNCHANGED <<cfgVars, callVars, hotVars, cluVars, safeVars>>

SyntaxErrorResult_Generic == [error |-> "Analysis failed"]

SyntaxErrorResult == [error |-> "Invalid Python syntax"]

ExceptionResult == [error |-> "Analysis failed"]

except_SyntaxError_return ==
    /\ pc = "except_SyntaxError"
    /\ pc' = "failed"
    /\ analysis' = SyntaxErrorResult
    /\ UNCHANGED <<metrics, total_complexity, current_function, current_class,
                   nested_depth, all_decision_points, current_decision_points,
                   frames, visited>>
    /\ UNCHANGED <<cfgVars, callVars, hotVars, cluVars, safeVars>>

except_Exception_return ==
    /\ pc = "except_Exception"
    /\ pc' = "failed"
    /\ analysis' = ExceptionResult
    /\ UNCHANGED <<metrics, total_complexity, current_function, current_class,
                   nested_depth, all_decision_points, current_decision_points,
                   frames, visited>>
    /\ UNCHANGED <<cfgVars, callVars, hotVars, cluVars, safeVars>>

\* ---- CodeSafetyAnalyzer.analyze_code
\* The modules of at most one statement: what the try block does with an
\* exception does not depend on the module's length.
ShortModules ==
    {<<>>} \cup {<<[stmt |-> s, lineno |-> 1]>> : s \in Statements}

safe_ast_parse_ok ==
    /\ pc = "safe_parse"
    /\ pc' = "safe_walk"
    /\ tree' \in ShortModules
    /\ todo' = ModuleBody(tree')
    /\ UNCHANGED <<flagVars, locVars, results, cxVars, cfgVars, callVars, hotVars, cluVars>>

safe_ast_parse_SyntaxError ==
    /\ pc = "safe_parse"
    /\ pc' = "safe_except_SyntaxError"
    /\ UNCHANGED <<cxVars, cfgVars, callVars, hotVars, cluVars, safeVars>>

safe_raise_Exception ==
    /\ pc \in {"safe_parse", "safe_walk"}
    /\ pc' = "safe_except_Exception"
    /\ DropCodeVisitor
    /\ UNCHANGED <<cxVars, cfgVars, callVars, hotVars, cluVars>>

safe_except_SyntaxError_return ==
    /\ pc = "safe_except_SyntaxError"
    /\ pc' = "safe_failed"
    /\ results' = SyntaxErrorResult
    /\ UNCHANGED <<tree, todo, flagVars, locVars, cxVars, cfgVars, callVars, hotVars, cluVars>>

safe_except_Exception_return ==
    /\ pc = "safe_except_Exception"
    /\ pc' = "safe_failed"
    /\ results' = ExceptionResult
    /\ UNCHANGED <<tree, todo, flagVars, locVars, cxVars, cfgVars, callVars, hotVars, cluVars>>

InitErr ==
    /\ IdleCall
    /\ pc \in {"parse", "safe_parse"}
    /\ IdleCx
    /\ DefaultCfg
    /\ IdleHot
    /\ IdleClu
    /\ IdleSafe

NextErr ==
    \/ ast_parse_ok
    \/ ast_parse_SyntaxError
    \/ raise_Exception
    \/ except_SyntaxError_return
    \/ except_Exception_return
    \/ safe_ast_parse_ok
    \/ safe_ast_parse_SyntaxError
    \/ safe_raise_Exception
    \/ safe_except_SyntaxError_return
    \/ safe_except_Exception_return
    \/ Next
    \/ NextSafe

SpecErr == InitErr /\ [][NextErr]_vars

\* A call that has caught `caught` returns `result`, the whole of it, and
\* returns nothing else.
Returns(caught, failed, out, out2, result) ==
    /\ (pc = caught /\ pc' # pc) => (pc' = failed /\ out2 = result)
    /\ pc = failed => (pc' = failed /\ out2 = out)

\* C11 (as claimed): a rejected parse gives exactly {error: "Invalid syntax"},
\* any other fault exactly {error: "Analysis failed"}, and neither result
\* carries findings, metrics, hotspots or recommendations.
C11_ErrorResultsAsClaimed ==
    [][/\ Returns("except_SyntaxError", "failed", analysis, analysis',
                  [error |-> "Invalid syntax"])
       /\ Returns("except_Exception", "failed", analysis, analysis',
                  [error |-> "Analysis failed"])
       /\ Returns("safe_except_SyntaxError", "safe_failed", results, results',
                  [error |-> "Invalid syntax"])
       /\ Returns("safe_except_Exception", "safe_failed", results, results',
                  [error |-> "Analysis failed"])]_vars

\* C11 (amended): a rejected parse gives exactly
\* {error: "Invalid Python syntax"}, any other fault exactly
\* {error: "Analysis failed"}; the record has that one field, so no findings,
\* metrics, hotspots or recommendations, and the call returns nothing more.
C11_ErrorResults ==
    [][/\ Returns("except_SyntaxError", "failed", analysis, analysis',
                  [error |-> "Invalid Python syntax"])
       /\ Returns("except_Exception", "failed", analysis, analysis',
                  [error |-> "Analysis failed"])
       /\ Returns("safe_except_SyntaxError", "safe_failed", results, results',
                  [error |-> "Invalid Python syntax"])
       /\ Returns("safe_except_Exception", "safe_failed", results, results',
                  [error |-> "Analysis failed"])
       /\ (pc' \in {"failed"} => DOMAIN analysis' = {"error"})
       /\ (pc' \in {"safe_failed"} => DOMAIN results' = {"error"})]_vars

C11_Witness ==
    /\ pc = "failed"
    /\ analysis = [error |-> "Invalid Python syntax"]

\* ======================================================================
\*  SpecRe: any number of analyze_code calls, one after the other, on one
\*  analyzer instance
\* ======================================================================
MaxReNodes == 2      \* nodes of a tree analysed in a sequence of calls

\* The caller's notes.  `kept` holds at most one earlier call: its input,
\* what it returned, and whether a call on another input has returned since.
\* The call that has just returned is either the first one kept or compared
\* with the one kept.
Keep(input, result) ==
    IF kept = <<>>
    THEN {<<>>, <<[input |-> input, result |-> result, between |-> FALSE]>>}
    ELSE {<<[kept[1] EXCEPT !.between = @ \/ input # kept[1].input]>>}

\* ---- CyclomaticComplexityAnalyzer
\* the two configurations of the instances: the defaults, and thresholds low
\* enough for the small trees to have hotspots
ReConfigs == {<<DefaultWarning, DefaultCritical>>, <<2, 3>>}

ComplexityVisitor_init_Stale ==
    /\ metrics' = <<>>
    /\ total_complexity' = 1
    /\ current_function' = None
    /\ current_class' = None
    /\ nested_depth' = 0
    /\ all_decision_points' = all_decision_points
    /\ current_decision_points' = <<>>
    /\ frames' = <<>>
    /\ visited' = <<>>

\* visitor = ComplexityVisitor(): every call works on a visitor of its own
ComplexityVisitor_init ==
    /\ metrics' = <<>>
    /\ total_complexity' = 1
    /\ current_function' = None
    /\ current_class' = None
    /\ nested_depth' = 0
    /\ all_decision_points' = <<>>
    /\ current_decision_points' = <<>>
    /\ frames' = <<>>
    /\ visited' = <<>>

\* analyze_code(code) is called; the text parses.  The caller has noted what
\* the call before returned; `analysis` is a local of the new call.
analyze_code_call ==
    /\ pc \in {"idle", "done"}
    /\ pc' = "walk"
    /\ ComplexityVisitor_init
    /\ kept' \in (IF pc = "idle" THEN {kept} ELSE Keep(visited, analysis))
    /\ analysis' = NoResult
    /\ UNCHANGED <<cfgVars, hotVars, cluVars, safeVars>>

\* ---- CodeSafetyAnalyzer
CodeVisitor_init ==
    /\ has_hardcoded_credentials' = FALSE
    /\ has_unsafe_deserialization' = FALSE
    /\ has_sql_concatenation' = FALSE
    /\ has_unsafe_file_ops' = FALSE
    /\ has_debug_info' = FALSE
    /\ has_broad_exception_handling' = FALSE
    /\ credential_locations' = <<>>
    /\ deserialization_locations' = <<>>
    /\ sql_locations' = <<>>
    /\ file_op_locations' = <<>>
    /\ debug_locations' = <<>>
    /\ exception_locations' = <<>>

CodeSafetyAnalyzer_analyze_code_call ==
    /\ pc \in {"safe_idle", "safe_done"}
    /\ pc' = "safe_walk"
    /\ tree' \in ShortModules
    /\ todo' = ModuleBody(tree')
    /\ CodeVisitor_init
    /\ kept' \in (IF pc = "safe_idle" THEN {kept} ELSE Keep(tree, results))
    /\ results' = NoResult
    /\ UNCHANGED <<cxVars, cfgVars, hotVars, cluVars>>

\* An instance of either analyzer, constructed and not yet called.
InitRe ==
    /\ pc \in {"idle", "safe_idle"}
    /\ \E cfg \in (IF pc = "idle" THEN ReConfigs
                                  ELSE {<<DefaultWarning, DefaultCritical>>}) :
          /\ threshold_warning = cfg[1]
          /\ threshold_critical = cfg[2]
    /\ IdleCall
    /\ IdleCx
    /\ IdleHot
    /\ IdleClu
    /\ IdleSafe

\* The trees analysed are made of function definitions, if statements and
\* returns, MaxReNodes nodes at most.
NextRe ==
    \/ analyze_code_call
    \/ visit_FunctionDef_enter /\ Len(visited') <= MaxReNodes
    \/ visit_FunctionDef_exit
    \/ visit_If /\ Len(visited') <= MaxReNodes
    \/ visit_Return /\ Len(visited') <= MaxReNodes
    \/ analyze_code_report
    \/ CodeSafetyAnalyzer_analyze_code_call
    \/ NextSafe

SpecRe == InitRe /\ [][NextRe]_vars

\* C12: on one analyzer instance, a call's result depends on its input and on
\* the configuration set at construction only: a call on the input of an
\* earlier call returns what that call returned, whatever was analysed in
\* between, and no step of any call changes the thresholds.
C12_CallsAreIndependent ==
    [][/\ threshold_warning' = threshold_warning
       /\ threshold_critical' = threshold_critical
       /\ (pc' = "done" /\ kept' # <<>> /\ visited' = kept'[1].input)
             => analysis' = kept'[1].result
       /\ (pc' = "safe_done" /\ kept' # <<>> /\ tree' = kept'[1].input)
             => results' = kept'[1].result]_vars

\* A tree with a hotspot is analysed, then another tree, then the first
\* again.
C12_Witness ==
    /\ pc = "done"
    /\ kept # <<>>
    /\ kept[1].between
    /\ visited = kept[1].input
    /\ analysis.hotspots # <<>>
    /\ analysis = kept[1].result

\* C13: an analyzer that has been constructed and used holds two positive
\* thresholds with threshold_warning < threshold_critical.
C13_ThresholdsOrdered ==
    pc = "hot_done" =>
        /\ threshold_warning > 0
        /\ threshold_critical > 0
        /\ threshold_warning < threshold_critical

\* ======================================================================
\*  Function contexts of the complexity traversal (checked under Spec)
\* ======================================================================
\* The decision point _add_decision_point records for a counted node.
PointOf(n) ==
    [type |-> CASE n.kind = "If" -> "if"
                [] n.kind \in {"While", "For"} -> "loop"
                [] n.kind = "ExceptHandler" -> "except"
                [] n.kind = "BoolOp" -> "boolean_op"
                [] n.kind = "Return" -> "return",
     line |-> n.lineno]

\* The points of the counted nodes whose innermost enclosing function
\* definition is the one at line l, in the order they were visited.
InnermostPoints(l) ==
    LET own == SelectSeq(visited, LAMBDA n :
                   /\ Counted(n)
                   /\ n.encl # <<>>
                   /\ Last(n.encl) = l)
    IN  [i \in 1..Len(own) |-> PointOf(own[i])]

\* C14: the decision_points of every emitted function metric are exactly the
\* decision points met with that function as the innermost enclosing one:
\* a point inside a nested function is in the nested function's metric and
\* not in the outer one's, and a point of the outer function after the
\* nested definition is in the outer function's metric only.
C14_PointsInInnermostFunctionOnly ==
    \A k \in 1..Len(metrics) :
        metrics[k].decision_points = InnermostPoints(metrics[k].line_number)

\* def f: def g: if ...   followed by an if of f
C14_Witness ==
    /\ Len(visited) = 4
    /\ visited[2].kind = "FunctionDef" /\ visited[2].encl = <<1>>
    /\ visited[3].kind = "If" /\ visited[3].encl = <<1, 2>>
    /\ visited[4].kind = "If" /\ visited[4].encl = <<1>>
    /\ Len(metrics) = 2
    /\ metrics[1].line_number = 2
    /\ metrics[1].decision_points = <<[type |-> "if", line |-> 3]>>
    /\ metrics[2].line_number = 1
    /\ metrics[2].decision_points = <<[type |-> "if", line |-> 4]>>

\* The counted nodes visited between entering and leaving the function
\* definition at line l: those inside it at any depth.
SubtreePoints(l) ==
    {i \in CountedNodes :
        \E d \in 1..Len(visited[i].encl) : visited[i].encl[d] = l}

\* The function definition at line inner lies inside the one at line outer.
NestedIn(inner, outer) ==
    \E d \in 1..Len(visited[inner].encl) : visited[inner].encl[d] = outer

\* C15: the complexity emitted for a function is 1 + the number of decision
\* points recorded anywhere between entering and leaving it, those of the
\* functions and classes nested in it included; so a function's complexity
\* is at least that of every function nested in it.
C15_ComplexityCountsSubtree ==
    /\ \A k \in 1..Len(metrics) :
          metrics[k].complexity
              = 1 + Cardinality(SubtreePoints(metrics[k].line_number))
    /\ \A j, k \in 1..Len(metrics) :
          NestedIn(metrics[j].line_number, metrics[k].line_number)
              => metrics[k].complexity >= metrics[j].complexity

\* def f: def g: if ...: the if is counted for g and for f, and the
\* functions' complexities less one add up to more than the overall
\* complexity less one.
C15_Witness ==
    /\ pc = "done"
    /\ Len(metrics) = 2
    /\ NestedIn(metrics[1].line_number, metrics[2].line_number)
    /\ metrics[1].decision_points # <<>>
    /\ metrics[2].complexity > 1 + Len(metrics[2].decision_points)
    /\ sum_complexity(metrics) - Len(metrics)
          > analysis.metrics.overall_complexity - 1

=============================================================================
